---- MODULE Spec2Model ----
(***************************************************************************)
(* Model of the traffic / pollution pipeline:                              *)
(*   src/src/data_processing.py     load_data, clean_data,                 *)
(*                                   load_and_merge_two                     *)
(*   src/src/feature_engineering.py add_lag_features                       *)
(*   src/src/models.py              train_baseline_model                   *)
(*   src/app.py                     load_data (cached), main               *)
(*                                                                         *)
(* A DataFrame is a record [cols, rows]: cols is the sequence of column    *)
(* labels, rows the sequence of rows in positional (iloc) order; a row is  *)
(* [i |-> index label, c |-> cells], one cell per column.  A cell holding  *)
(* the value v is <<v>>, a missing one (NaN) is <<>>.  A timestamp cell of *)
(* a CSV file is text, <<format, instant>>; pd.to_datetime turns it into   *)
(* the timestamp <<instant>>.                                              *)
(* sort_values is modelled as a stable sort: no formula below depends on   *)
(* the order of rows whose keys are equal.                                 *)
(***************************************************************************)
EXTENDS Integers, Sequences, FiniteSets, TLC

VARIABLES call,      \* the last library call: its inputs and what it returned
          disk,      \* app: the files on disk, path -> contents
          cache,     \* app: st.cache_data of load_data, arguments -> table
          pc,        \* app: position of the current request in main()
          req,       \* app: the widgets' values in the current request
          main_df,   \* app: main's local df, <<>> before it is loaded
          shown      \* app: what the request rendered

appvars == <<disk, cache, pc, req, main_df, shown>>

vars == <<call, disk, cache, pc, req, main_df, shown>>

-----------------------------------------------------------------------------
(* DataFrame basics *)

NaN == <<>>

IsNa(cell) == cell = NaN

Range(s) == {s[k] : k \in 1..Len(s)}

HasCol(df, c) == \E k \in 1..Len(df.cols) : df.cols[k] = c

ColIndex(df, c) == CHOOSE k \in 1..Len(df.cols) : df.cols[k] = c

\* df[c] as the sequence of its cells in positional order
Column(df, c) == [k \in 1..Len(df.rows) |-> df.rows[k].c[ColIndex(df, c)]]

\* df.rename(columns={old: new})
Rename(df, old, new) ==
    [df EXCEPT !.cols = [k \in 1..Len(df.cols) |->
                            IF df.cols[k] = old THEN new ELSE df.cols[k]]]

\* df.iloc[:n].copy()
ILocHead(df, n) == [df EXCEPT !.rows = SubSeq(df.rows, 1, n)]

\* df[c] = values  (positional assignment of an array; a new label is appended)
SetColumn(df, c, values) ==
    IF HasCol(df, c)
    THEN [df EXCEPT !.rows = [k \in 1..Len(df.rows) |->
              [df.rows[k] EXCEPT !.c[ColIndex(df, c)] = values[k]]]]
    ELSE [cols |-> Append(df.cols, c),
          rows |-> [k \in 1..Len(df.rows) |->
              [df.rows[k] EXCEPT !.c = Append(df.rows[k].c, values[k])]]]

\* df.reset_index(drop=True, inplace=True)
ResetIndex(df) ==
    [df EXCEPT !.rows = [k \in 1..Len(df.rows) |-> [df.rows[k] EXCEPT !.i = k - 1]]]

RECURSIVE InsertRow(_, _, _)
InsertRow(sorted, row, k) ==
    IF sorted = <<>> THEN <<row>>
    ELSE IF Head(sorted).c[k][1] <= row.c[k][1]
         THEN <<Head(sorted)>> \o InsertRow(Tail(sorted), row, k)
         ELSE <<row>> \o sorted

RECURSIVE SortRows(_, _)
SortRows(rows, k) ==
    IF rows = <<>> THEN <<>>
    ELSE InsertRow(SortRows(SubSeq(rows, 1, Len(rows) - 1), k), rows[Len(rows)], k)

\* mutant: the rows are left in the order they came in
SortValuesKeepOrder(df, c) == df

\* df.sort_values(c, inplace=True): ascending, index labels travel with rows
SortValues(df, c) == [df EXCEPT !.rows = SortRows(df.rows, ColIndex(df, c))]

\* pd.to_datetime on one cell of CSV text
ParseTimestamp(text) == <<text[2]>>

\* df[c] = pd.to_datetime(df[c])
ToDatetime(df, c) ==
    SetColumn(df, c, [k \in 1..Len(df.rows) |-> ParseTimestamp(Column(df, c)[k])])

Min(a, b) == IF a <= b THEN a ELSE b

\* a local variable: the value is computed once and handed to what follows
Bind(value, Rest(_)) == CHOOSE r \in {Rest(v) : v \in {value}} : TRUE

Bind2(value1, value2, Rest(_, _)) ==
    CHOOSE r \in {Rest(v, w) : v \in {value1}, w \in {value2}} : TRUE

-----------------------------------------------------------------------------
(* load_data: Schema Normalizer *)

DatetimeAliases == <<"DateTime", "date">>

TrafficAliases == <<"Vehicles", "traffic">>

Pm25Aliases == <<"PM2.5", "PM2_5", "PM25", "PM2.5 Emissions", "PM2.5 Emission",
                 "PM2.5_Emissions">>

\* mutant: the last candidate present wins
RECURSIVE LastPresent(_, _)
LastPresent(df, candidates) ==
    IF candidates = <<>> THEN <<>>
    ELSE IF HasCol(df, candidates[Len(candidates)]) THEN <<candidates[Len(candidates)]>>
         ELSE LastPresent(df, SubSeq(candidates, 1, Len(candidates) - 1))

\* the first candidate that is a column of df, as <<name>>; <<>> when none is
RECURSIVE FirstPresent(_, _)
FirstPresent(df, candidates) ==
    IF candidates = <<>> THEN <<>>
    ELSE IF HasCol(df, Head(candidates)) THEN <<Head(candidates)>>
         ELSE FirstPresent(df, Tail(candidates))

NormalizeField(df, canonical, candidates) ==
    IF HasCol(df, canonical) THEN df
    ELSE LET hit == FirstPresent(df, candidates)
         IN  IF hit = <<>> THEN df ELSE Rename(df, hit[1], canonical)

NormalizeDatetime(df) == NormalizeField(df, "datetime", DatetimeAliases)

NormalizeTrafficVolume(df) == NormalizeField(df, "traffic_volume", TrafficAliases)

NormalizePm25(df) == NormalizeField(df, "pm25", Pm25Aliases)

Normalize(df) == NormalizePm25(NormalizeTrafficVolume(NormalizeDatetime(df)))

-----------------------------------------------------------------------------
(* load_data: Temporal Aligner *)

\* a path is [dir, name]; a file system maps the paths of its files to contents
Join(dir, name) == [dir |-> dir, name |-> name]

Dirname(path) == path.dir

Exists(fs, path) == path \in DOMAIN fs

CandidateNames == <<"delhi_traffic.csv", "traffic.csv", "traffic_data.csv">>

\* the first candidate file that exists in dir, as <<path>>; <<>> when none does
RECURSIVE FindCompanion(_, _, _)
FindCompanion(fs, dir, names) ==
    IF names = <<>> THEN <<>>
    ELSE IF Exists(fs, Join(dir, Head(names))) THEN <<Join(dir, Head(names))>>
         ELSE FindCompanion(fs, dir, Tail(names))

CompanionAliases == <<"DateTime">>

NormalizeCompanion(traffic_df) == NormalizeField(traffic_df, "datetime", CompanionAliases)

\* truncate df to the shorter length and copy traffic's timestamps by position
CopyTimestamps(df, traffic_df) ==
    LET length == Min(Len(df.rows), Len(traffic_df.rows))
    IN  SetColumn(ILocHead(df, length), "datetime",
                  SubSeq(Column(traffic_df, "datetime"), 1, length))

AlignToCompanion(fs, file_path, df) ==
    LET found == FindCompanion(fs, Dirname(file_path), CandidateNames)
    IN  IF found = <<>> THEN df
        ELSE LET traffic_df == NormalizeCompanion(fs[found[1]])
             IN  IF HasCol(traffic_df, "datetime")
                 THEN Bind(Bind(SortValues(ToDatetime(traffic_df, "datetime"),
                                           "datetime"),
                                ResetIndex),
                           LAMBDA sorted_df : CopyTimestamps(df, sorted_df))
                 ELSE df

Ok(df) == [kind |-> "ok", df |-> df]

KeyError == "KeyError"

Raise(kind) == [kind |-> kind, df |-> [cols |-> <<>>, rows |-> <<>>]]

\* lines 29-60: parse the timestamps, or take them from a companion file
ParseOrSynthesize(fs, file_path, df) ==
    IF HasCol(df, "datetime") THEN ToDatetime(df, "datetime")
    ELSE IF HasCol(df, "pm25") THEN AlignToCompanion(fs, file_path, df)
    ELSE df

\* lines 62-65
FinalSort(df) ==
    IF HasCol(df, "datetime")
    THEN Bind(SortValues(df, "datetime"), ResetIndex)
    ELSE df

LoadData(fs, file_path) ==
    IF ~Exists(fs, file_path) THEN Raise("FileNotFoundError")
    ELSE Ok(Bind(Bind(Normalize(fs[file_path]),
                      LAMBDA df : ParseOrSynthesize(fs, file_path, df)),
                 FinalSort))

-----------------------------------------------------------------------------
(* clean_data *)

\* the cell ffill leaves at position k of a column: the last present cell at or
\* before k, NaN when there is none
RECURSIVE FFillCell(_, _)
FFillCell(cells, k) ==
    IF k = 0 THEN NaN
    ELSE IF ~IsNa(cells[k]) THEN cells[k]
         ELSE FFillCell(cells, k - 1)

\* df.ffill(inplace=True): every column, down the rows
FFill(df) ==
    [df EXCEPT !.rows = [k \in 1..Len(df.rows) |->
        [df.rows[k] EXCEPT !.c = [j \in 1..Len(df.cols) |->
            FFillCell(Column(df, df.cols[j]), k)]]]]

CleanData(df) == FFill(df)

-----------------------------------------------------------------------------
(* load_and_merge_two *)

DropAt(s, k) == SubSeq(s, 1, k - 1) \o SubSeq(s, k + 1, Len(s))

\* the label a non-key column gets in the merged frame
Suffixed(c, other, key, suffix) ==
    IF c # key /\ HasCol(other, c) THEN c \o suffix ELSE c

\* mutant: a left row is joined to the first right row of its key only
RECURSIVE JoinRowFirstMatch(_, _, _, _)
JoinRowFirstMatch(lrow, rrows, lk, rk) ==
    IF rrows = <<>> THEN <<>>
    ELSE IF Head(rrows).c[rk] = lrow.c[lk]
         THEN <<[i |-> 0, c |-> lrow.c \o DropAt(Head(rrows).c, rk)]>>
         ELSE JoinRowFirstMatch(lrow, Tail(rrows), lk, rk)

\* the rows of right whose key equals lrow's, each joined to lrow
RECURSIVE JoinRow(_, _, _, _)
JoinRow(lrow, rrows, lk, rk) ==
    IF rrows = <<>> THEN <<>>
    ELSE (IF Head(rrows).c[rk] = lrow.c[lk]
          THEN <<[i |-> 0, c |-> lrow.c \o DropAt(Head(rrows).c, rk)]>>
          ELSE <<>>)
         \o JoinRow(lrow, Tail(rrows), lk, rk)

RECURSIVE JoinRows(_, _, _, _)
JoinRows(lrows, rrows, lk, rk) ==
    IF lrows = <<>> THEN <<>>
    ELSE JoinRow(Head(lrows), rrows, lk, rk) \o JoinRows(Tail(lrows), rrows, lk, rk)

\* pd.merge(left, right, on=key, how='inner')
MergeInner(left, right, key) ==
    LET lk == ColIndex(left, key)
        rk == ColIndex(right, key)
        rcols == DropAt(right.cols, rk)
    IN  ResetIndex(
          [cols |-> [k \in 1..Len(left.cols) |-> Suffixed(left.cols[k], right, key, "_x")]
                    \o [k \in 1..Len(rcols) |-> Suffixed(rcols[k], left, key, "_y")],
           rows |-> JoinRows(left.rows, right.rows, lk, rk)])

MergeAndSort(traffic, pollution) ==
    Ok(Bind(Bind(MergeInner(traffic, pollution, "datetime"),
                 LAMBDA df : SortValues(df, "datetime")),
            ResetIndex))

\* mutant: a pollution table with neither datetime nor pm25 is let through
MergeLoadedLenient(traffic, pollution) ==
    IF traffic.kind # "ok" THEN traffic
    ELSE IF pollution.kind # "ok" THEN pollution
    ELSE IF ~HasCol(traffic.df, "datetime") THEN Raise(KeyError)
    ELSE IF ~HasCol(pollution.df, "datetime") /\ HasCol(pollution.df, "pm25")
         THEN Bind(CopyTimestamps(pollution.df, traffic.df),
                   LAMBDA aligned : MergeAndSort(traffic.df, aligned))
    ELSE IF ~HasCol(pollution.df, "datetime") THEN Ok(traffic.df)
    ELSE MergeAndSort(traffic.df, pollution.df)

\* lines 86-100, given what the two load_data calls returned or raised
MergeLoaded(traffic, pollution) ==
    IF traffic.kind # "ok" THEN traffic
    ELSE IF pollution.kind # "ok" THEN pollution
    ELSE IF ~HasCol(traffic.df, "datetime") THEN Raise(KeyError)
    ELSE IF ~HasCol(pollution.df, "datetime") /\ HasCol(pollution.df, "pm25")
         THEN Bind(CopyTimestamps(pollution.df, traffic.df),
                   LAMBDA aligned : MergeAndSort(traffic.df, aligned))
    ELSE IF ~HasCol(pollution.df, "datetime") THEN Raise(KeyError)
    ELSE MergeAndSort(traffic.df, pollution.df)

LoadAndMergeTwo(fs, traffic_path, pollution_path) ==
    Bind2(LoadData(fs, traffic_path), LoadData(fs, pollution_path), MergeLoaded)

\* lines 46-47 of app.py, given what load_and_merge_two returned or raised
CleanMerged(merged) == IF merged.kind = "ok" THEN Ok(CleanData(merged.df)) ELSE merged

\* app.py load_data: load_and_merge_two, then clean_data
AppLoadData(fs, traffic_path, pollution_path) ==
    Bind(LoadAndMergeTwo(fs, traffic_path, pollution_path), CleanMerged)

-----------------------------------------------------------------------------
(* The inputs of the library calls: CSV files and the directory they are in *)

MaxRows == 3

MaxTime == 2

Instants == 1..MaxTime

SeqsUpTo(S, n) == UNION {[1..m -> S] : m \in 0..n}

TimestampLabels == {"datetime", "DateTime", "date"}

\* what pd.read_csv returns for a file with this header: one row per entry of
\* stamps; a timestamp column holds the text of the row's instant, any other
\* column the number of the row in the file, or nothing for the rows in na
CsvFile(cols, format, stamps, na) ==
    [cols |-> cols,
     rows |-> [k \in 1..Len(stamps) |->
        [i |-> k - 1,
         c |-> [j \in 1..Len(cols) |->
                  IF cols[j] \in TimestampLabels THEN <<format, stamps[k]>>
                  ELSE IF k \in na THEN NaN ELSE <<k>>]]]]

DataDir == "data"

PollutionName == "vehicle_emission.csv"

TrafficNames == {"roads.csv", "delhi_traffic.csv"}

\* a directory holding the traffic file, the pollution file and further files
FileSystem(tname, tfile, pfile, others) ==
    [p \in {Join(DataDir, n) : n \in {tname, PollutionName} \cup DOMAIN others} |->
        IF p.name = tname THEN tfile
        ELSE IF p.name = PollutionName THEN pfile
        ELSE others[p.name]]

NoFiles == [n \in {} |-> <<>>]

MergeInput(tname, tfile, pfile, others) ==
    [fs |-> FileSystem(tname, tfile, pfile, others),
     traffic_path |-> Join(DataDir, tname),
     pollution_path |-> Join(DataDir, PollutionName)]

\* rows vary: any order and repetition of instants, with and without timestamps
\* in the pollution file
RowInputs ==
    {MergeInput(tname, CsvFile(<<"DateTime", "Vehicles">>, "iso", ts, {}),
                CsvFile(ph, "dmy", ps, {}), NoFiles) :
        tname \in TrafficNames,
        ts \in SeqsUpTo(Instants, MaxRows),
        ph \in {<<"date", "PM2.5">>, <<"PM2.5">>},
        ps \in SeqsUpTo(Instants, MaxRows)}

\* gaps vary: any cells of the two value columns missing
GapInputs ==
    {MergeInput("roads.csv",
                CsvFile(<<"datetime", "traffic_volume">>, "iso", [k \in 1..n |-> k], tna),
                CsvFile(<<"datetime", "pm25">>, "iso", [k \in 1..m |-> k], pna), NoFiles) :
        n \in 0..MaxRows, m \in 0..MaxRows,
        tna \in SUBSET (1..MaxRows), pna \in SUBSET (1..MaxRows)}

TrafficHeaders ==
    {<<"DateTime", "Vehicles">>, <<"date", "traffic">>,
     <<"date", "DateTime", "traffic", "Vehicles">>,
     <<"DateTime", "datetime", "Vehicles", "traffic_volume">>,
     <<"Vehicles">>, <<"PM25">>}

PollutionHeaders ==
    {<<"PM2.5">>, <<"pm25">>, <<"NOx">>, <<"date", "PM2_5", "PM2.5">>,
     <<"DateTime", "PM25", "pm25">>, <<"PM2.5_Emissions", "PM2.5 Emissions">>,
     <<"PM2.5 Emission", "Vehicles">>, <<"date", "NOx">>}

CompanionHeaders ==
    {<<"DateTime", "Vehicles">>, <<"date", "Vehicles">>, <<"Vehicles", "datetime">>,
     <<"Vehicles">>}

\* the instants of the candidate files, unsorted and different from file to file
CompanionStamps(name) ==
    IF name = "delhi_traffic.csv" THEN <<4, 3>>
    ELSE IF name = "traffic.csv" THEN <<6, 5>>
    ELSE <<8, 7>>

\* headers vary, and which candidate files exist beside the pollution file
HeaderInputs ==
    {MergeInput(tname, CsvFile(th, "iso", <<2, 1>>, {}),
                CsvFile(ph, "dmy", [k \in 1..m |-> 1], {}),
                [n \in present |-> CsvFile(ch, "iso", CompanionStamps(n), {})]) :
        tname \in TrafficNames, th \in TrafficHeaders, ph \in PollutionHeaders,
        m \in {1, MaxRows}, present \in SUBSET Range(CandidateNames),
        ch \in CompanionHeaders}

\* a path that names no file: open() raises before anything is read
MissingFileInputs ==
    {[fs |-> FileSystem("roads.csv",
                        CsvFile(<<"DateTime", "Vehicles">>, "iso", <<1>>, {}),
                        CsvFile(<<"date", "PM2.5">>, "dmy", <<1>>, {}), NoFiles),
      traffic_path |-> Join(DataDir, names[1]),
      pollution_path |-> Join(DataDir, names[2])] :
        names \in {<<"absent.csv", PollutionName>>, <<"roads.csv", "absent.csv">>}}

MergeInputs == RowInputs \cup GapInputs \cup HeaderInputs \cup MissingFileInputs

-----------------------------------------------------------------------------
(* The library calls: the state starts with the inputs of one call, the    *)
(* call's action adds what it returned                                     *)

AppIdle ==
    /\ disk = <<>> /\ cache = <<>> /\ pc = "idle"
    /\ req = <<>> /\ main_df = <<>> /\ shown = <<>>

InitLoad ==
    /\ call \in {[op |-> "none", in |-> in] : in \in MergeInputs}
    /\ AppIdle

CallLoadData ==
    \E path \in {"traffic_path", "pollution_path"} :
        /\ call.op = "none"
        /\ call' = [op |-> "load_data", in |-> call.in, file_path |-> call.in[path],
                    out |-> LoadData(call.in.fs, call.in[path])]
        /\ UNCHANGED appvars

CallLoadAndMergeTwo ==
    /\ call.op = "none"
    /\ call' = [op |-> "load_and_merge_two", in |-> call.in,
                out |-> LoadAndMergeTwo(call.in.fs, call.in.traffic_path,
                                        call.in.pollution_path)]
    /\ UNCHANGED appvars

CallAppLoadData ==
    /\ call.op = "none"
    /\ call' = [op |-> "app.load_data", in |-> call.in,
                out |-> AppLoadData(call.in.fs, call.in.traffic_path,
                                    call.in.pollution_path)]
    /\ UNCHANGED appvars

NextLoad == CallLoadData \/ CallLoadAndMergeTwo \/ CallAppLoadData

SpecLoad == InitLoad /\ [][NextLoad]_vars

-----------------------------------------------------------------------------
(* What the claims speak of, stated on the files a call was given *)

\* the file a path names, with an empty table standing for a path that names none
FileAt(fs, path) == IF Exists(fs, path) THEN fs[path] ELSE [cols |-> <<>>, rows |-> <<>>]

RawTraffic == FileAt(call.in.fs, call.in.traffic_path)

RawPollution == FileAt(call.in.fs, call.in.pollution_path)

HasTimestamps(file) == Range(file.cols) \cap TimestampLabels # {}

\* the column the Schema Normalizer is specified to take as a file's timestamps
TimestampColumn(file) ==
    IF HasCol(file, "datetime") THEN "datetime"
    ELSE IF HasCol(file, "DateTime") THEN "DateTime" ELSE "date"

\* the instants of a file's rows, in file order
InstantsOf(file) ==
    [k \in 1..Len(file.rows) |-> Column(file, TimestampColumn(file))[k][2]]

Count(s, x) == Cardinality({k \in 1..Len(s) : s[k] = x})

\* the k-th smallest entry of a sequence of numbers
KthSmallest(s, k) ==
    CHOOSE x \in Range(s) :
        /\ Cardinality({j \in 1..Len(s) : s[j] < x}) < k
        /\ k <= Cardinality({j \in 1..Len(s) : s[j] <= x})

Distinct(s) == \A j, k \in 1..Len(s) : j # k => s[j] # s[k]

RECURSIVE SumOver(_, _, _)
SumOver(S, a, b) ==
    IF S = {} THEN 0
    ELSE LET x == CHOOSE y \in S : TRUE
         IN  Count(a, x) * Count(b, x) + SumOver(S \ {x}, a, b)

\* C1: a traffic file with DateTime, Vehicles and a pollution file with PM2.5 alone
\* merge into a table with datetime, traffic_volume and pm25 whose k-th row pairs
\* the k-th pollution value with the k-th timestamp of the loaded traffic table
\* passed as traffic_path, and that has no other row.  (Stated for traffic files
\* with distinct timestamps, where the order of the rows is unambiguous.)
C1_PositionalPairing ==
    (/\ call.op = "load_and_merge_two"
     /\ RawTraffic.cols = <<"DateTime", "Vehicles">>
     /\ RawPollution.cols = <<"PM2.5">>
     /\ Distinct(InstantsOf(RawTraffic)))
    => LET loaded == LoadData(call.in.fs, call.in.traffic_path).df
           n == Min(Len(RawTraffic.rows), Len(RawPollution.rows))
           df == call.out.df
       IN  /\ call.out.kind = "ok"
           /\ {"datetime", "traffic_volume", "pm25"} \subseteq Range(df.cols)
           /\ Len(df.rows) = n
           /\ \A k \in 1..n :
                 /\ Column(df, "datetime")[k] = Column(loaded, "datetime")[k]
                 /\ Column(df, "pm25")[k] = Column(RawPollution, "PM2.5")[k]

\* C2: when both files carry timestamps the merged table has, for every shared
\* instant t, (traffic rows at t) * (pollution rows at t) rows, and no other row.
C2_MergedRowCount ==
    (/\ call.op = "load_and_merge_two"
     /\ HasTimestamps(RawTraffic) /\ HasTimestamps(RawPollution))
    => /\ call.out.kind = "ok"
       /\ Len(call.out.df.rows) =
             SumOver(Range(InstantsOf(RawTraffic)) \cap Range(InstantsOf(RawPollution)),
                     InstantsOf(RawTraffic), InstantsOf(RawPollution))

\* C2's case: an instant repeated in both files (many-to-many) next to an instant
\* that only one file has
C2_Witness ==
    /\ call.op = "load_and_merge_two"
    /\ HasTimestamps(RawTraffic) /\ HasTimestamps(RawPollution)
    /\ \E t \in Instants : /\ Count(InstantsOf(RawTraffic), t) >= 2
                            /\ Count(InstantsOf(RawPollution), t) >= 2
    /\ \E t \in Instants : /\ Count(InstantsOf(RawTraffic), t) >= 1
                            /\ Count(InstantsOf(RawPollution), t) = 0
    /\ Len(call.out.df.rows) >= 4

\* C3: the merged table's datetime column is non-decreasing and its index is
\* 0, 1, 2, ... whatever the order of the rows in the two files.
C3_SortedContiguous ==
    (call.op = "load_and_merge_two" /\ call.out.kind = "ok")
    => LET df == call.out.df
       IN  /\ \A k \in 1..Len(df.rows) : df.rows[k].i = k - 1
           /\ \A k \in 1..(Len(df.rows) - 1) :
                 Column(df, "datetime")[k][1] <= Column(df, "datetime")[k + 1][1]

\* C3's case: both files out of order, several instants in the result
C3_Witness ==
    /\ call.op = "load_and_merge_two" /\ call.out.kind = "ok"
    /\ HasTimestamps(RawTraffic) /\ HasTimestamps(RawPollution)
    /\ \E k \in 1..(Len(RawTraffic.rows) - 1) :
          InstantsOf(RawTraffic)[k] > InstantsOf(RawTraffic)[k + 1]
    /\ \E k \in 1..(Len(RawPollution.rows) - 1) :
          InstantsOf(RawPollution)[k] > InstantsOf(RawPollution)[k + 1]
    /\ Len(call.out.df.rows) >= 2
    /\ Cardinality(Range(Column(call.out.df, "datetime"))) >= 2

\* C4: given two files that exist, load_and_merge_two raises its missing-timestamp
\* error (KeyError in the code) and returns no table when the loaded traffic table
\* has no datetime column, or the loaded pollution table has neither a datetime
\* nor a pm25 column.
C4_MissingTimestampError ==
    (call.op = "load_and_merge_two")
    => LET traffic == LoadData(call.in.fs, call.in.traffic_path).df
           pollution == LoadData(call.in.fs, call.in.pollution_path).df
       IN  (/\ Exists(call.in.fs, call.in.traffic_path)
            /\ Exists(call.in.fs, call.in.pollution_path)
            /\ \/ ~HasCol(traffic, "datetime")
               \/ ~HasCol(pollution, "datetime") /\ ~HasCol(pollution, "pm25"))
           => call.out.kind = KeyError /\ call.out.df.rows = <<>>

\* C4's case: a timestamped traffic file and a pollution file with neither column
C4_Witness ==
    /\ call.op = "load_and_merge_two"
    /\ HasTimestamps(RawTraffic)
    /\ ~HasTimestamps(RawPollution)
    /\ Range(RawPollution.cols) \cap (Range(Pm25Aliases) \cup {"pm25"}) = {}
    /\ call.out.kind = KeyError

\* C4's other case: a traffic file without timestamps
C4_WitnessTraffic ==
    /\ call.op = "load_and_merge_two"
    /\ ~HasCol(LoadData(call.in.fs, call.in.traffic_path).df, "datetime")
    /\ HasTimestamps(RawPollution)
    /\ call.out.kind = KeyError

CanonicalFields ==
    {<<"datetime", DatetimeAliases>>, <<"traffic_volume", TrafficAliases>>,
     <<"pm25", Pm25Aliases>>}

\* column label c of header cols is the first alias of field f present in cols,
\* and f's canonical name is not in cols
FirstAliasOf(cols, c, f) ==
    /\ f[1] \notin Range(cols)
    /\ \E a \in 1..Len(f[2]) :
          /\ f[2][a] = c
          /\ \A b \in 1..(a - 1) : f[2][b] \notin Range(cols)

\* C6: load_data renames, per canonical field, only the first alias of the field's
\* candidate list that is present and only when the canonical name is absent;
\* every other column keeps its label, and no canonical name occurs twice.
C6_FirstAliasOnly ==
    (call.op = "load_data" /\ call.out.kind = "ok")
    => LET raw == call.in.fs[call.file_path].cols
           res == call.out.df.cols
       IN  /\ Len(res) >= Len(raw)
           /\ \A j \in 1..Len(raw) :
                 /\ \A f \in CanonicalFields : FirstAliasOf(raw, raw[j], f) => res[j] = f[1]
                 /\ (\A f \in CanonicalFields : ~FirstAliasOf(raw, raw[j], f))
                      => res[j] = raw[j]
           /\ \A f \in CanonicalFields :
                 Cardinality({j \in 1..Len(res) : res[j] = f[1]}) <= 1

\* C6's case: two aliases of one field in the file, the earlier candidate second
\* in the header; the first candidate is renamed and the other alias is kept
C6_Witness ==
    /\ call.op = "load_data" /\ call.out.kind = "ok"
    /\ LET raw == call.in.fs[call.file_path].cols
           res == call.out.df.cols
       IN  /\ Len(raw) >= 2
           /\ raw[1] = "date" /\ raw[2] = "DateTime"
           /\ res[1] = "date" /\ res[2] = "datetime"

\* C6's other case: the canonical name is already a column, so no alias is renamed
C6_WitnessCanonical ==
    /\ call.op = "load_data" /\ call.out.kind = "ok"
    /\ LET raw == call.in.fs[call.file_path].cols
           res == call.out.df.cols
       IN  /\ Len(raw) >= 3
           /\ raw[2] = "PM25" /\ raw[3] = "pm25"
           /\ res[2] = "PM25" /\ res[3] = "pm25"

\* the first candidate file present beside the file a load_data call was given
FirstCandidate ==
    LET present == {a \in 1..Len(CandidateNames) :
                      Join(call.file_path.dir, CandidateNames[a]) \in DOMAIN call.in.fs}
    IN  Join(call.file_path.dir,
             CandidateNames[CHOOSE a \in present : \A b \in present : a <= b])

NoCandidate ==
    \A a \in 1..Len(CandidateNames) :
        Join(call.file_path.dir, CandidateNames[a]) \notin DOMAIN call.in.fs

Pm25Only(file) ==
    /\ ~HasTimestamps(file)
    /\ Range(file.cols) \cap (Range(Pm25Aliases) \cup {"pm25"}) # {}

\* C7: load_data on a file with pm25 and no timestamps takes the first existing
\* candidate file, whose timestamp column may be labelled datetime, DateTime or
\* date, and returns min(len, len) rows carrying the candidate's sorted timestamps
\* index for index; with no candidate file the table comes back without datetime.
C7_CompanionAlignment ==
    (call.op = "load_data" /\ Pm25Only(call.in.fs[call.file_path]))
    => /\ call.out.kind = "ok"
       /\ NoCandidate =>
             /\ ~HasCol(call.out.df, "datetime")
             /\ call.out.df.rows = call.in.fs[call.file_path].rows
       /\ (~NoCandidate /\ HasTimestamps(call.in.fs[FirstCandidate])) =>
             LET stamps == InstantsOf(call.in.fs[FirstCandidate])
                 n == Min(Len(call.in.fs[call.file_path].rows), Len(stamps))
             IN  /\ HasCol(call.out.df, "datetime")
                 /\ Len(call.out.df.rows) = n
                 /\ \A k \in 1..n :
                       Column(call.out.df, "datetime")[k] = <<KthSmallest(stamps, k)>>

\* C10: every row of the table the load path returns has a traffic_volume and a
\* pm25 value, the first row included.
C10_NoGapsAfterLoad ==
    (call.op = "app.load_data" /\ call.out.kind = "ok")
    => \A c \in {"traffic_volume", "pm25"} :
          HasCol(call.out.df, c)
          => \A k \in 1..Len(call.out.df.rows) : ~IsNa(Column(call.out.df, c)[k])

-----------------------------------------------------------------------------
(* add_lag_features *)

\* mutant: the column is shifted the other way
ShiftBackward(cells, lag) ==
    [k \in 1..Len(cells) |-> IF k + lag <= Len(cells) THEN cells[k + lag] ELSE NaN]

\* Series.shift(lag): row k takes the cell of row k - lag, NaN where there is none
Shift(cells, lag) ==
    [k \in 1..Len(cells) |->
        IF k - lag >= 1 /\ k - lag <= Len(cells) THEN cells[k - lag] ELSE NaN]

\* f'{col}_lag{lag}'
LagName(col, lag) == col \o "_lag" \o ToString(lag)

\* df.dropna(inplace=True): the rows with no missing cell, index labels kept
RECURSIVE DropNaRows(_)
DropNaRows(rows) ==
    IF rows = <<>> THEN <<>>
    ELSE (IF \E j \in 1..Len(Head(rows).c) : IsNa(Head(rows).c[j])
          THEN <<>> ELSE <<Head(rows)>>)
         \o DropNaRows(Tail(rows))

DropNa(df) == [df EXCEPT !.rows = DropNaRows(df.rows)]

\* the inner loop: one shifted column per lag, in the order of lags
RECURSIVE AddLagsOfColumn(_, _, _)
AddLagsOfColumn(df, col, lags) ==
    IF lags = <<>> THEN df
    ELSE AddLagsOfColumn(
             SetColumn(df, LagName(col, Head(lags)), Shift(Column(df, col), Head(lags))),
             col, Tail(lags))

\* the outer loop, in the order of cols
RECURSIVE AddLagColumns(_, _, _)
AddLagColumns(df, cols, lags) ==
    IF cols = <<>> THEN df
    ELSE AddLagColumns(AddLagsOfColumn(df, Head(cols), lags), Tail(cols), lags)

AddLagFeatures(df, cols, lags) == DropNa(AddLagColumns(df, cols, lags))

MaxLag == 2

\* a table of n rows: x holds 10 + k and y holds 20 + k in row k, nothing in the
\* rows of xna and yna; z, when present, holds 30 + k
LagTable(header, n, xna, yna) ==
    [cols |-> header,
     rows |-> [k \in 1..n |->
        [i |-> k - 1,
         c |-> [j \in 1..Len(header) |->
                  IF header[j] = "x" THEN (IF k \in xna THEN NaN ELSE <<10 + k>>)
                  ELSE IF header[j] = "y" THEN (IF k \in yna THEN NaN ELSE <<20 + k>>)
                  ELSE <<30 + k>>]]]]

LagInputs ==
    {[df |-> LagTable(<<"x", "y">>, n, xna, yna), cols |-> cols, lags |-> lags] :
        n \in 0..MaxRows, xna \in SUBSET (1..MaxRows), yna \in SUBSET (1..MaxRows),
        cols \in SeqsUpTo({"x", "y"}, 2), lags \in SeqsUpTo(1..MaxLag, 2)}
    \cup
    {[df |-> LagTable(<<"x", "x_lag1">>, n, {}, {}), cols |-> cols, lags |-> <<1>>] :
        n \in 0..MaxRows, cols \in {<<"x">>, <<"x", "x_lag1">>}}

InitLag ==
    /\ call \in {[op |-> "none", in |-> in] : in \in LagInputs}
    /\ AppIdle

CallAddLagFeatures ==
    /\ call.op = "none"
    /\ call' = [op |-> "add_lag_features", in |-> call.in,
                out |-> AddLagFeatures(call.in.df, call.in.cols, call.in.lags)]
    /\ UNCHANGED appvars

NextLag == CallAddLagFeatures

SpecLag == InitLag /\ [][NextLag]_vars

MaxOf(s) == CHOOSE x \in Range(s) : \A y \in Range(s) : y <= x

NoMissing(df) ==
    \A k \in 1..Len(df.rows) : \A j \in 1..Len(df.cols) : ~IsNa(df.rows[k].c[j])

GeneratedNames(cols, lags) ==
    {LagName(cols[a], lags[b]) : a \in 1..Len(cols), b \in 1..Len(lags)}

\* what C8 says of a call: one column per (col, lag) pair is added, exactly the
\* first max(lags) rows are dropped, the others stay in order, and in each of them
\* '<col>_lag<lag>' is the value col had lag rows earlier in the input
LagContract ==
    LET in == call.in.df
        out == call.out
        n == Len(in.rows)
        first == Min(MaxOf(call.in.lags), n)
    IN  /\ Range(out.cols) = Range(in.cols) \cup GeneratedNames(call.in.cols, call.in.lags)
        /\ Len(out.cols) = Cardinality(Range(out.cols))
        /\ Len(out.rows) = n - first
        /\ \A k \in 1..Len(out.rows) :
              /\ out.rows[k].i = in.rows[first + k].i
              /\ \A c \in Range(in.cols) :
                    Column(out, c)[k] = Column(in, c)[first + k]
              /\ \A a \in 1..Len(call.in.cols), b \in 1..Len(call.in.lags) :
                    Column(out, LagName(call.in.cols[a], call.in.lags[b]))[k]
                        = Column(in, call.in.cols[a])[first + k - call.in.lags[b]]

LagCase ==
    /\ call.op = "add_lag_features"
    /\ call.in.cols # <<>> /\ call.in.lags # <<>>
    /\ Range(call.in.df.cols) \cap GeneratedNames(call.in.cols, call.in.lags) = {}

\* C8 as claimed: for every table, add_lag_features drops exactly the first
\* max(lags) rows and no other row, and fills the lag columns from lag rows earlier.
C8_EveryTable == LagCase => LagContract

\* C8 as amended: the same for every table that has no missing value.
C8_TableWithoutGaps == (LagCase /\ NoMissing(call.in.df)) => LagContract

\* C8's case: two columns, two different lags, rows left after the drop
C8_Witness ==
    /\ LagCase /\ NoMissing(call.in.df)
    /\ Cardinality(Range(call.in.cols)) = 2
    /\ Cardinality(Range(call.in.lags)) = 2
    /\ Len(call.out.rows) >= 1
    /\ Len(call.out.rows) < Len(call.in.df.rows)

-----------------------------------------------------------------------------
(* train_baseline_model *)

\* mutant: the size of the test split is rounded down
NTestFloor(n) == (n * 2) \div 10

\* train_test_split(test_size=0.2): ceil(0.2 * n) rows are held out
NTest(n) == (n * 2 + 9) \div 10

\* df[cols]: the cells of the named columns, row by row
Select(df, cols) ==
    [k \in 1..Len(df.rows) |-> [j \in 1..Len(cols) |-> Column(df, cols[j])[k]]]

Labels(df) == [k \in 1..Len(df.rows) |-> df.rows[k].i]

\* train_test_split(X, y, shuffle=False, test_size=0.2) as the positions of the
\* two splits: the first n - n_test rows, then the last n_test
TrainPositions(n) == [k \in 1..(n - NTest(n)) |-> k]

TestPositions(n) == [k \in 1..NTest(n) |-> n - NTest(n) + k]

\* LinearRegression().fit(X_train, y_train): the fitted model is known by the rows
\* it was fitted on; model.predict gives one value per row of X_test
Fit(X, y, positions) == [X |-> [k \in 1..Len(positions) |-> X[positions[k]]],
                         y |-> [k \in 1..Len(positions) |-> y[positions[k]]]]

Predict(model, x) == [model |-> model, x |-> x]

\* what train_baseline_model returns or raises, with the rows of the two splits
\* and the frame it writes to outputs/predictions.csv
TrainResult(kind, train, test, predictions) ==
    [kind |-> kind, train |-> train, test |-> test, predictions |-> predictions]

TrainBaselineModel(df, target_col, feature_cols) ==
    LET n == Len(df.rows)
        X == Select(df, feature_cols)
        y == Column(df, target_col)
        train == TrainPositions(n)
        test == TestPositions(n)
        model == Fit(X, y, train)
        \* df['datetime'].iloc[-len(y_test):]
        tail == SubSeq(Column(df, "datetime"), n - Len(test) + 1, n)
    IN  IF \E c \in Range(feature_cols) \cup {target_col} : ~HasCol(df, c)
        THEN TrainResult(KeyError, <<>>, <<>>, <<>>)
        ELSE IF n - NTest(n) = 0
        THEN TrainResult("ValueError", <<>>, <<>>, <<>>)
        ELSE IF \E k \in 1..n : IsNa(y[k]) \/ \E j \in 1..Len(feature_cols) : IsNa(X[k][j])
        THEN TrainResult("ValueError", <<>>, <<>>, <<>>)
        ELSE IF ~HasCol(df, "datetime")
        THEN TrainResult(KeyError, <<>>, <<>>, <<>>)
        ELSE TrainResult("ok",
                 [k \in 1..Len(train) |-> Labels(df)[train[k]]],
                 [k \in 1..Len(test) |-> Labels(df)[test[k]]],
                 [k \in 1..Len(test) |->
                     [datetime |-> tail[k], actual |-> y[test[k]],
                      predicted |-> Predict(model, X[test[k]])]])

MaxTrainRows == 11

\* a merged table of n rows: row k has index label first + k - 1, instant k,
\* traffic_volume 100 + k and pm25 200 + k; the cells of column gapcol are missing
\* in row gap (no row when gap = 0)
TrainTable(header, n, first, gap, gapcol) ==
    [cols |-> header,
     rows |-> [k \in 1..n |->
        [i |-> first + k - 1,
         c |-> [j \in 1..Len(header) |->
                  IF header[j] = "datetime" THEN <<k>>
                  ELSE IF k = gap /\ header[j] = gapcol THEN NaN
                  ELSE IF header[j] = "traffic_volume" THEN <<100 + k>>
                  ELSE <<200 + k>>]]]]

TrainInputs ==
    {[df |-> TrainTable(<<"datetime", "traffic_volume", "pm25">>, n, first, gap, gapcol),
      target_col |-> t[1], feature_cols |-> t[2]] :
        n \in 0..MaxTrainRows, first \in {0, MaxLag},
        gap \in {0, 1, MaxTrainRows}, gapcol \in {"traffic_volume", "pm25"},
        t \in {<<"traffic_volume", <<"pm25">>>>, <<"pm25", <<"traffic_volume">>>>,
                <<"pm25", <<"hour", "traffic_volume">>>>}}
    \cup
    {[df |-> TrainTable(h, 100, 0, 0, "pm25"),
      target_col |-> "pm25", feature_cols |-> <<"traffic_volume">>] :
        h \in {<<"datetime", "traffic_volume", "pm25">>, <<"traffic_volume", "pm25">>}}

InitTrain ==
    /\ call \in {[op |-> "none", in |-> in] : in \in TrainInputs}
    /\ AppIdle

CallTrainBaselineModel ==
    /\ call.op = "none"
    /\ call' = [op |-> "train_baseline_model", in |-> call.in,
                out |-> TrainBaselineModel(call.in.df, call.in.target_col,
                                           call.in.feature_cols)]
    /\ UNCHANGED appvars

NextTrain == CallTrainBaselineModel

SpecTrain == InitTrain /\ [][NextTrain]_vars

\* a table train_baseline_model can be trained on: the columns it reads are there,
\* none of their cells is missing, and a row is left to train on
Trainable(in) ==
    /\ \A c \in Range(in.feature_cols) \cup {in.target_col, "datetime"} : HasCol(in.df, c)
    /\ \A c \in Range(in.feature_cols) \cup {in.target_col} :
          \A k \in 1..Len(in.df.rows) : ~IsNa(Column(in.df, c)[k])
    /\ Len(in.df.rows) >= 2

\* C9: of n rows the last 20% (rounded up; 20 of 100) are held out in table order
\* and the rows before them are trained on, so every training row precedes every
\* held-out row; the predictions have one row per held-out row, in order, with
\* that row's own datetime and actual target value.
C9_HoldOutLastFifth ==
    (call.op = "train_baseline_model")
    => LET df == call.in.df
           n == Len(df.rows)
           out == call.out
           held == Len(out.test)
       IN  /\ Trainable(call.in) <=> out.kind = "ok"
           /\ out.kind = "ok" =>
                 /\ 5 * (held - 1) < n /\ n <= 5 * held
                 /\ n = 100 => held = 20
                 /\ out.train = [k \in 1..(n - held) |-> df.rows[k].i]
                 /\ out.test = [k \in 1..held |-> df.rows[n - held + k].i]
                 /\ Len(out.predictions) = held
                 /\ \A k \in 1..held :
                       /\ out.predictions[k].datetime
                             = Column(df, "datetime")[n - held + k]
                       /\ out.predictions[k].actual
                             = Column(df, call.in.target_col)[n - held + k]
           /\ out.kind # "ok" => out.predictions = <<>>

\* C9's case: n is no multiple of five, and rows are both trained on and held out
C9_Witness ==
    /\ call.op = "train_baseline_model" /\ call.out.kind = "ok"
    /\ Len(call.in.df.rows) % 5 # 0
    /\ Len(call.out.predictions) >= 2
    /\ Len(call.out.train) >= 2
    /\ call.in.df.rows[1].i # 0

\* C9's other case: the 100-row table of the specification, 20 rows written
C9_WitnessHundred ==
    /\ call.op = "train_baseline_model" /\ call.out.kind = "ok"
    /\ Len(call.in.df.rows) = 100
    /\ Len(call.out.predictions) = 20

-----------------------------------------------------------------------------
(* add_time_features: an instant is a number of hours since Monday            *)
(* 2024-01-01 00:00, within the year 2024                                   *)

Hour(t) == t % 24

DayOfWeek(t) == (t \div 24) % 7

DaysUntilEndOfMonth == <<31, 60, 91, 121, 152, 182, 213, 244, 274, 305, 335, 366>>

Month(t) ==
    CHOOSE m \in 1..12 :
        /\ t \div 24 < DaysUntilEndOfMonth[m]
        /\ m > 1 => t \div 24 >= DaysUntilEndOfMonth[m - 1]

AddTimeFeatures(df) ==
    LET stamps == Column(df, "datetime")
        n == Len(df.rows)
        df1 == SetColumn(df, "hour", [k \in 1..n |-> <<Hour(stamps[k][1])>>])
        df2 == SetColumn(df1, "day_of_week", [k \in 1..n |-> <<DayOfWeek(stamps[k][1])>>])
    IN  SetColumn(df2, "month", [k \in 1..n |-> <<Month(stamps[k][1])>>])

-----------------------------------------------------------------------------
(* app.py main(): one run of the script per request *)

TempTraffic == Join(".", "temp_traffic.csv")

TempPollution == Join(".", "temp_pollution.csv")

DefaultTraffic == Join("data", "delhi_traffic.csv")

DefaultPollution == Join("data", "vehicle_emission.csv")

PredictionsPath == Join("outputs", "predictions.csv")

\* a write that keeps a file that is already there (mode "x" in place of "w")
WriteFileIfAbsent(fs, path, contents) ==
    [p \in DOMAIN fs \cup {path} |-> IF p \in DOMAIN fs THEN fs[p] ELSE contents]

\* open(path, "wb").write(...) and DataFrame.to_csv(path)
WriteFile(fs, path, contents) ==
    [p \in DOMAIN fs \cup {path} |-> IF p = path THEN contents ELSE fs[p]]

\* os.remove(path)
RemoveFile(fs, path) == [p \in DOMAIN fs \ {path} |-> fs[p]]

\* predictions.to_csv(predictions_path, index=False): timestamps are written as text
ToCsv(predictions) ==
    [cols |-> <<"datetime", "actual", "predicted">>,
     rows |-> [k \in 1..Len(predictions) |->
        [i |-> k - 1,
         c |-> <<<<"iso", predictions[k].datetime[1]>>, predictions[k].actual,
                 <<predictions[k].predicted>>>>]]]

\* the features main() trains on
FeatureCols(df_model, target_col) ==
    <<"hour", "day_of_week", "month">>
    \o (IF HasCol(df_model, "traffic_volume") /\ HasCol(df_model, "pm25")
        THEN (IF target_col = "traffic_volume" THEN <<"pm25">> ELSE <<"traffic_volume">>)
        ELSE <<>>)

Stamps(offset) == [k \in 1..MaxRows |-> offset + k]

\* the files a user may upload: two good pairs of different contents, a pollution
\* file without timestamps, and files load_and_merge_two rejects
TrafficUploads ==
    {CsvFile(<<"DateTime", "Vehicles">>, "iso", Stamps(0), {}),
     CsvFile(<<"DateTime", "Vehicles">>, "iso", Stamps(1), {}),
     CsvFile(<<"Vehicles">>, "iso", Stamps(0), {})}

PollutionUploads ==
    {CsvFile(<<"date", "PM2.5">>, "dmy", Stamps(0), {}),
     CsvFile(<<"PM2.5">>, "dmy", Stamps(0), {1}),
     CsvFile(<<"NOx">>, "dmy", Stamps(0), {})}

Requests ==
    [use_default : BOOLEAN,
     traffic_file : {<<>>} \cup {<<f>> : f \in TrafficUploads},
     pollution_file : {<<>>} \cup {<<f>> : f \in PollutionUploads},
     train : BOOLEAN,
     target_col : {"traffic_volume", "pm25"}]

Init ==
    /\ call = [op |-> "none", in |-> <<>>]
    /\ disk = (DefaultTraffic :> CsvFile(<<"DateTime", "Vehicles">>, "iso", Stamps(0), {}))
              @@ (DefaultPollution :> CsvFile(<<"PM2.5">>, "iso", Stamps(0), {}))
    /\ cache = <<>>
    /\ pc = "idle"
    /\ req = <<>>
    /\ main_df = <<>>
    /\ shown = <<>>

\* the script starts: the sidebar's values are read (lines 150-188)
StartRequest ==
    /\ pc = "idle"
    /\ \E r \in Requests :
          /\ req' = r
          /\ IF r.use_default \/ (r.traffic_file # <<>> /\ r.pollution_file # <<>>)
             THEN /\ pc' = IF r.use_default THEN "load" ELSE "write_traffic"
                  /\ shown' = <<>>
             ELSE /\ pc' = "idle"
                  /\ shown' = [kind |-> "info"]
    /\ main_df' = <<>>
    /\ UNCHANGED <<call, disk, cache>>

\* lines 199-200
WriteTempTraffic ==
    /\ pc = "write_traffic"
    /\ disk' = WriteFile(disk, TempTraffic, req.traffic_file[1])
    /\ pc' = "write_pollution"
    /\ UNCHANGED <<call, cache, req, main_df, shown>>

\* lines 201-202
WriteTempPollution ==
    /\ pc = "write_pollution"
    /\ disk' = WriteFile(disk, TempPollution, req.pollution_file[1])
    /\ pc' = "load"
    /\ UNCHANGED <<call, cache, req, main_df, shown>>

LoadArgs == IF req.use_default THEN <<DefaultTraffic, DefaultPollution>>
            ELSE <<TempTraffic, TempPollution>>

AfterLoad == IF req.use_default THEN "render" ELSE "remove_traffic"

\* lines 193 and 204: load_data under st.cache_data; what it raises reaches the
\* except clause of main
Load ==
    /\ pc = "load"
    /\ \/ /\ LoadArgs \in DOMAIN cache
          /\ main_df' = cache[LoadArgs]
          /\ pc' = AfterLoad
          /\ UNCHANGED <<cache, shown>>
       \/ /\ LoadArgs \notin DOMAIN cache
          /\ \E r \in {AppLoadData(disk, LoadArgs[1], LoadArgs[2])} :
                 \/ /\ r.kind = "ok"
                    /\ cache' = (LoadArgs :> r.df) @@ cache
                    /\ main_df' = r.df
                    /\ pc' = AfterLoad
                    /\ UNCHANGED shown
                 \/ /\ r.kind # "ok"
                    /\ pc' = "except"
                    /\ shown' = [kind |-> "error", error |-> r.kind]
                    /\ UNCHANGED <<cache, main_df>>
    /\ UNCHANGED <<call, disk, req>>

\* line 207
RemoveTempTraffic ==
    /\ pc = "remove_traffic"
    /\ disk' = RemoveFile(disk, TempTraffic)
    /\ pc' = "remove_pollution"
    /\ UNCHANGED <<call, cache, req, main_df, shown>>

\* line 208
RemoveTempPollution ==
    /\ pc = "remove_pollution"
    /\ disk' = RemoveFile(disk, TempPollution)
    /\ pc' = "render"
    /\ UNCHANGED <<call, cache, req, main_df, shown>>

\* lines 211-318: the table is shown
Render ==
    /\ pc = "render"
    /\ shown' = [kind |-> "table", df |-> main_df]
    /\ pc' = IF req.train THEN "train" ELSE "idle"
    /\ UNCHANGED <<call, disk, cache, req, main_df>>

\* lines 325-388: the Train Model button
Train ==
    /\ pc = "train"
    /\ \E r \in {Bind(AddTimeFeatures(main_df),
                       LAMBDA df_model :
                           TrainBaselineModel(df_model, req.target_col,
                                              FeatureCols(df_model, req.target_col)))} :
           \/ /\ r.kind = "ok"
              /\ disk' = WriteFile(disk, PredictionsPath, ToCsv(r.predictions))
              /\ shown' = [kind |-> "predictions", df |-> main_df,
                           pred_df |-> ToCsv(r.predictions)]
              /\ pc' = "idle"
           \/ /\ r.kind # "ok"
              /\ shown' = [kind |-> "error", error |-> r.kind]
              /\ pc' = "except"
              /\ UNCHANGED disk
    /\ UNCHANGED <<call, cache, req, main_df>>

\* lines 390-392: the error is displayed and the run ends
Except ==
    /\ pc = "except"
    /\ pc' = "idle"
    /\ UNCHANGED <<call, disk, cache, req, main_df, shown>>

Next ==
    \/ StartRequest \/ WriteTempTraffic \/ WriteTempPollution \/ Load
    \/ RemoveTempTraffic \/ RemoveTempPollution \/ Render \/ Train \/ Except

Spec == Init /\ [][Next]_vars

\* C5: when a request in upload mode has ended, neither temp_traffic.csv nor
\* temp_pollution.csv is on disk, whether load and merge succeeded or raised.
C5_TempFilesRemoved ==
    pc = "idle" => /\ TempTraffic \notin DOMAIN disk
                   /\ TempPollution \notin DOMAIN disk

\* outputs/predictions.csv as it is on disk: <<the file>>, or <<>> when there is none
Artifact(fs) == IF PredictionsPath \in DOMAIN fs THEN <<fs[PredictionsPath]>> ELSE <<>>

\* the number of rows held out of n: the least h with n <= 5 h
HeldOut(n) == CHOOSE h \in 0..n : 5 * (h - 1) < n /\ n <= 5 * h

\* file has the columns datetime, actual, predicted and one row for each of the
\* last fifth of the rows of df, in order, with that row's timestamp and its value
\* of target_col, and nothing else
IsHeldOutOf(file, df, target_col) ==
    LET n == Len(df.rows)
        h == HeldOut(n)
    IN  /\ file.cols = <<"datetime", "actual", "predicted">>
        /\ Len(file.rows) = h
        /\ \A k \in 1..h :
              /\ Len(file.rows[k].c) = 3
              /\ file.rows[k].c[1][2] = Column(df, "datetime")[n - h + k][1]
              /\ file.rows[k].c[2] = Column(df, target_col)[n - h + k]
              /\ ~IsNa(file.rows[k].c[3])

\* a training run that succeeded ends the request; one that raised goes to except
TrainingRunSucceeds == pc = "train" /\ pc' = "idle"

C11_Step ==
    /\ TrainingRunSucceeds =>
          /\ PredictionsPath \in DOMAIN disk'
          /\ IsHeldOutOf(disk'[PredictionsPath], main_df, req.target_col)
    /\ ~TrainingRunSucceeds => Artifact(disk') = Artifact(disk)

\* C11: every successful training run leaves in outputs/predictions.csv exactly
\* the held-out rows of the table it trained on (datetime, actual, predicted) and
\* every other step, a training run that raises included, leaves the artifact as
\* it was; so the artifact is always that of the most recent successful run.
C11_ArtifactOfLatestRun == [][C11_Step]_vars

\* C11's case: a training run about to succeed while the artifact of an earlier
\* run, with other rows, is on disk
C11_Witness ==
    /\ pc = "train"
    /\ PredictionsPath \in DOMAIN disk
    /\ LET df_model == AddTimeFeatures(main_df)
           r == TrainBaselineModel(df_model, req.target_col,
                                   FeatureCols(df_model, req.target_col))
       IN  /\ r.kind = "ok"
           /\ ~IsHeldOutOf(disk[PredictionsPath], main_df, req.target_col)

\* C11's other case: a training run has raised (the table was loaded, so the error
\* is the trainer's) and the artifact of an earlier run is on disk
C11_WitnessFailedRun ==
    /\ pc = "except"
    /\ main_df # <<>>
    /\ shown.kind = "error"
    /\ PredictionsPath \in DOMAIN disk

\* the disk as the request in progress writes it before it loads: the two uploads
\* under the fixed names
DiskWithUploads ==
    WriteFile(WriteFile(disk, TempTraffic, req.traffic_file[1]),
              TempPollution, req.pollution_file[1])

\* the table of the two files uploaded in the request in progress
MergeOfUploads == AppLoadData(DiskWithUploads, TempTraffic, TempPollution)

\* a request in upload mode has shown its table
UploadTableShown ==
    /\ pc \in {"train", "idle", "except"}
    /\ req # <<>> /\ shown # <<>>
    /\ ~req.use_default
    /\ shown.kind \in {"table", "predictions"}

\* C12: the table a request in upload mode shows is the merge of the two files
\* uploaded in that request, whatever earlier requests uploaded.
C12_ShownIsMergeOfUploads ==
    UploadTableShown =>
        \E r \in {MergeOfUploads} : r.kind = "ok" /\ shown.df = r.df

====
